---- MODULE Spec2Model ----
(***************************************************************************)
(* A model of the pricing service of the LLM price calculator              *)
(* (services/apiService.ts): provider inference, price sanitization,       *)
(* entry normalization, the localStorage cache around the catalog fetch    *)
(* and the cost calculation.                                               *)
(*                                                                         *)
(* JavaScript values are tagged records ([t |-> "string", s |-> ...]);     *)
(* finite numbers are exact decimals m * 10^e, so the arithmetic of the    *)
(* service (times 1,000,000, divided by 1,000,000, products and sums) is   *)
(* exact here; the rounding of IEEE doubles is not modelled, their         *)
(* overflow to Infinity is.                                                *)
(***************************************************************************)
EXTENDS Integers, Sequences, FiniteSets, TLC

(***************************************************************************)
(* JavaScript values                                                       *)
(***************************************************************************)
Undefined == [t |-> "undefined"]
Null == [t |-> "null"]
NaN == [t |-> "nan"]
Infinity == [t |-> "infinity", sign |-> 1]
NegInfinity == [t |-> "infinity", sign |-> -1]
Bool(b) == [t |-> "boolean", b |-> b]
Str(s) == [t |-> "string", s |-> s]
Arr(items) == [t |-> "array", a |-> items]
Obj(fields) == [t |-> "object", f |-> fields]

\* The largest decimal exponent of a finite double (1.79e308); above it a
\* result is Infinity.
MaxDoubleExp == 308
\* Below 5e-324 a result is 0.
MinDoubleExp == -324

RECURSIVE Digits(_)
\* The number of decimal digits of a natural number (0 has one).
Digits(n) == IF n < 10 THEN 1 ELSE 1 + Digits(n \div 10)

Abs(i) == IF i < 0 THEN -i ELSE i

RECURSIVE Pow10(_)
Pow10(k) == IF k = 0 THEN 1 ELSE 10 * Pow10(k - 1)

RECURSIVE Normal(_, _)
\* The normal form of m * 10^e: no trailing zero in m, and 0 is 0 * 10^0.
Normal(m, e) ==
  IF m = 0 THEN [t |-> "number", m |-> 0, e |-> 0]
  ELSE IF m % 10 = 0 THEN Normal(m \div 10, e + 1)
  ELSE [t |-> "number", m |-> m, e |-> e]

\* The double that m * 10^e denotes: Infinity beyond the range of doubles, 0
\* below it.
Num(m, e) ==
  LET n == Normal(m, e) IN
  IF n.m = 0 THEN n
  ELSE IF n.e + Digits(Abs(n.m)) - 1 > MaxDoubleExp
    THEN (IF n.m > 0 THEN Infinity ELSE NegInfinity)
  ELSE IF n.e + Digits(Abs(n.m)) - 1 < MinDoubleExp THEN Normal(0, 0)
  ELSE n

Whole(i) == Num(i, 0)

IsNumber(v) == v.t \in {"number", "infinity", "nan"}
IsFinite(v) == v.t = "number"

\* The sign of a number that is not NaN: -1, 0 or 1.
Sign(v) == IF v.t = "infinity" THEN v.sign
           ELSE IF v.m > 0 THEN 1 ELSE IF v.m < 0 THEN -1 ELSE 0

\* The decimal order of magnitude of a finite number that is not 0.
Magnitude(v) == v.e + Digits(Abs(v.m))

\* a < b on finite numbers of the same sign and magnitude (so that both scale
\* to a common exponent).
LessAligned(a, b) ==
  LET lo == IF a.e < b.e THEN a.e ELSE b.e
  IN a.m * Pow10(a.e - lo) < b.m * Pow10(b.e - lo)

\* a < b on numbers (false when either is NaN).
Less(a, b) ==
  IF a.t = "nan" \/ b.t = "nan" THEN FALSE
  ELSE IF Sign(a) # Sign(b) THEN Sign(a) < Sign(b)
  ELSE IF Sign(a) = 0 THEN FALSE
  ELSE IF a.t = "infinity" \/ b.t = "infinity"
    THEN (IF Sign(a) > 0 THEN a.t # "infinity" ELSE b.t # "infinity")
  ELSE IF Magnitude(a) # Magnitude(b)
    THEN (IF Sign(a) > 0 THEN Magnitude(a) < Magnitude(b)
          ELSE Magnitude(b) < Magnitude(a))
  ELSE LessAligned(a, b)

\* a * b on numbers.
Times(a, b) ==
  IF a.t = "nan" \/ b.t = "nan" THEN NaN
  ELSE IF a.t = "infinity" \/ b.t = "infinity"
    THEN (IF Sign(a) * Sign(b) = 0 THEN NaN
          ELSE IF Sign(a) * Sign(b) > 0 THEN Infinity ELSE NegInfinity)
  ELSE Num(a.m * b.m, a.e + b.e)

\* a + b on numbers.
Plus(a, b) ==
  IF a.t = "nan" \/ b.t = "nan" THEN NaN
  ELSE IF a.t = "infinity" /\ b.t = "infinity"
    THEN (IF a.sign = b.sign THEN a ELSE NaN)
  ELSE IF a.t = "infinity" THEN a
  ELSE IF b.t = "infinity" THEN b
  ELSE LET lo == IF a.e < b.e THEN a.e ELSE b.e
       IN Num(a.m * Pow10(a.e - lo) + b.m * Pow10(b.e - lo), lo)

\* a / 10^k on numbers: the quotient by a power of ten is exact in decimals.
OverPow10(a, k) ==
  IF a.t # "number" THEN a ELSE Num(a.m, a.e - k)

\* Math.max(0, v) for a number v that is not NaN.
MaxZero(v) == IF Sign(v) < 0 THEN Whole(0) ELSE v

(***************************************************************************)
(* Strings                                                                 *)
(***************************************************************************)
UpperCaseLetters == "ABCDEFGHIJKLMNOPQRSTUVWXYZ"
LowerCaseLetters == "abcdefghijklmnopqrstuvwxyz"
DecimalDigits == "0123456789"

\* The character of s at position i (from 1), "" beyond the end.
CharAt(s, i) == IF i >= 1 /\ i <= Len(s) THEN SubSeq(s, i, i) ELSE ""

\* The characters of s, as a set.
CharsOf(s) == {SubSeq(s, i, i) : i \in 1..Len(s)}

\* The position of character c in s, 0 when absent (or c is "").
IndexIn(c, s) ==
  IF \E i \in 1..Len(s) : SubSeq(s, i, i) = c
  THEN CHOOSE i \in 1..Len(s) : SubSeq(s, i, i) = c
  ELSE 0

\* The lower-case letter of every upper-case letter, and the reverse.
LowerCaseOf ==
  [c \in CharsOf(UpperCaseLetters) |->
     CharAt(LowerCaseLetters, IndexIn(c, UpperCaseLetters))]
UpperCaseOf ==
  [c \in CharsOf(LowerCaseLetters) |->
     CharAt(UpperCaseLetters, IndexIn(c, LowerCaseLetters))]
\* The value of every decimal digit.
DigitValueOf ==
  [c \in CharsOf(DecimalDigits) |-> IndexIn(c, DecimalDigits) - 1]

LowerChar(c) == IF c \in DOMAIN LowerCaseOf THEN LowerCaseOf[c] ELSE c

UpperChar(c) == IF c \in DOMAIN UpperCaseOf THEN UpperCaseOf[c] ELSE c

RECURSIVE toLowerCase(_)
toLowerCase(s) ==
  IF s = "" THEN "" ELSE LowerChar(Head(s)) \o toLowerCase(Tail(s))

RECURSIVE toUpperCase(_)
toUpperCase(s) ==
  IF s = "" THEN "" ELSE UpperChar(Head(s)) \o toUpperCase(Tail(s))

startsWith(s, prefix) ==
  Len(s) >= Len(prefix) /\ SubSeq(s, 1, Len(prefix)) = prefix

\* The position of the first occurrence of character c in s, 0 when absent.
RECURSIVE FirstIndexFrom(_, _, _)
FirstIndexFrom(s, c, i) ==
  IF i > Len(s) THEN 0
  ELSE IF SubSeq(s, i, i) = c THEN i
  ELSE FirstIndexFrom(s, c, i + 1)

\* s.split(sep) for a one-character separator: the pieces between the
\* separators, at least one piece.
RECURSIVE split(_, _)
split(s, sep) ==
  LET i == FirstIndexFrom(s, sep, 1) IN
  IF i = 0 THEN <<s>>
  ELSE <<SubSeq(s, 1, i - 1)>> \o split(SubSeq(s, i + 1, Len(s)), sep)

\* s.charAt(0) and s.slice(1).
charAt0(s) == CharAt(s, 1)
slice1(s) == SubSeq(s, 2, Len(s))

(***************************************************************************)
(* Exceptions and property access                                          *)
(***************************************************************************)
Throw(name) == [t |-> "throw", error |-> name]
IsThrow(v) == v.t = "throw"

IsNullish(v) == v.t \in {"undefined", "null"}

\* v.key for a value v that is neither undefined nor null (reading a
\* property of those throws a TypeError): the field of an object that has it,
\* undefined otherwise.
Get(v, key) ==
  IF v.t = "object" /\ key \in DOMAIN v.f THEN v.f[key] ELSE Undefined

\* v?.key
OptGet(v, key) == IF IsNullish(v) THEN Undefined ELSE Get(v, key)

\* Whether `v || other` yields v.
Truthy(v) ==
  CASE v.t \in {"undefined", "null", "nan"} -> FALSE
    [] v.t = "boolean" -> v.b
    [] v.t = "number" -> v.m # 0
    [] v.t = "string" -> v.s # ""
    [] OTHER -> TRUE

(***************************************************************************)
(* guessProvider (apiService.ts)                                           *)
(***************************************************************************)
\* The startsWith tests of guessProvider, in the order of the code.
ProviderPrefixes ==
  << <<"openai/", "OpenAI">>,
     <<"google/", "Google">>,
     <<"anthropic/", "Anthropic">>,
     <<"mistral", "Mistral">>,
     <<"meta-llama/", "Meta">>,
     <<"meta/", "Meta">>,
     <<"cohere/", "Cohere">>,
     <<"deepseek/", "DeepSeek">>,
     <<"qwen/", "Alibaba">>,
     <<"microsoft/", "Microsoft">>,
     <<"perplexity/", "Perplexity">> >>

\* The index of the first test of the chain that lowerId passes, 0 if none.
RECURSIVE FirstPrefixFrom(_, _)
FirstPrefixFrom(lowerId, i) ==
  IF i > Len(ProviderPrefixes) THEN 0
  ELSE IF startsWith(lowerId, ProviderPrefixes[i][1]) THEN i
  ELSE FirstPrefixFrom(lowerId, i + 1)

\* The fallback of guessProvider: the first part of the id before the slash,
\* capitalized, or 'Other'.
ProviderFallback(id) ==
  LET parts == split(id, "/") IN
  IF Len(parts) > 1
  THEN LET key == toLowerCase(parts[1])
       IN toUpperCase(charAt0(key)) \o slice1(key)
  ELSE "Other"

\* guessProvider with the startsWith tests made on the id as written, not on
\* its lower-case form.
guessProviderCaseSensitive(id) ==
  IF FirstPrefixFrom(id, 1) > 0
  THEN ProviderPrefixes[FirstPrefixFrom(id, 1)][2]
  ELSE ProviderFallback(id)

\* guessProvider(id, name) for a string id: the label.
guessProviderOfString(id) ==
  LET lowerId == toLowerCase(id)
      hit == FirstPrefixFrom(lowerId, 1)
  IN IF hit > 0 THEN ProviderPrefixes[hit][2] ELSE ProviderFallback(id)

\* guessProvider(id, name) for any value: id.toLowerCase() throws a TypeError
\* unless id is a string.
guessProvider(id, name) ==
  IF id.t = "string" THEN Str(guessProviderOfString(id.s))
  ELSE Throw("TypeError")

(***************************************************************************)
(* parseFloat, String and parsePrice (apiService.ts)                       *)
(***************************************************************************)
IsDigit(c) == c \in DOMAIN DigitValueOf
DigitValue(c) == DigitValueOf[c]

\* The number of white-space characters at the start of s.
RECURSIVE LeadingSpaces(_)
LeadingSpaces(s) ==
  IF s # "" /\ Head(s) = " " THEN 1 + LeadingSpaces(Tail(s)) ELSE 0

\* The length of the run of digits of s that starts at position i.
RECURSIVE DigitRun(_, _)
DigitRun(s, i) == IF IsDigit(CharAt(s, i)) THEN 1 + DigitRun(s, i + 1) ELSE 0

\* The natural number that the n digits of s from position i spell.
RECURSIVE DigitsValue(_, _, _)
DigitsValue(s, i, n) ==
  IF n = 0 THEN 0
  ELSE 10 * DigitsValue(s, i, n - 1) + DigitValue(CharAt(s, i + n - 1))

\* The scan of parseFloat, in stages. The exponent part, from position iE
\* (just after the digits): it counts when an e or E is followed by digits,
\* with or without a sign.
ScanExponent(s, sgn, mant, nFrac, iE, iEd) ==
  IF CharAt(s, iE) \in {"e", "E"} /\ DigitRun(s, iEd) > 0
  THEN [value |-> Num(sgn * mant,
                      (IF CharAt(s, iE + 1) = "-"
                       THEN -DigitsValue(s, iEd, DigitRun(s, iEd))
                       ELSE DigitsValue(s, iEd, DigitRun(s, iEd))) - nFrac),
        end |-> iEd + DigitRun(s, iEd)]
  ELSE [value |-> Num(sgn * mant, -nFrac), end |-> iE]

\* The digits: nInt before the point and nFrac after it, from position i1.
ScanDigits(s, sgn, i1, nInt, nFrac, iE) ==
  IF nInt + nFrac = 0 THEN [value |-> NaN, end |-> 1]
  ELSE ScanExponent(s, sgn,
                    DigitsValue(s, i1, nInt) * Pow10(nFrac)
                      + DigitsValue(s, i1 + nInt + 1, nFrac),
                    nFrac, iE,
                    IF CharAt(s, iE + 1) \in {"+", "-"} THEN iE + 2 ELSE iE + 1)

ScanFraction(s, sgn, i1, nInt, nFrac) ==
  ScanDigits(s, sgn, i1, nInt, nFrac,
             i1 + nInt + (IF CharAt(s, i1 + nInt) = "." THEN 1 + nFrac ELSE 0))

ScanInteger(s, sgn, i1, nInt) ==
  ScanFraction(s, sgn, i1, nInt,
               IF CharAt(s, i1 + nInt) = "." THEN DigitRun(s, i1 + nInt + 1)
               ELSE 0)

\* The literal from position i1, just after the sign.
ScanUnsigned(s, sgn, i1) ==
  IF Len(s) >= i1 + 7 /\ SubSeq(s, i1, i1 + 7) = "Infinity"
  THEN [value |-> IF sgn = 1 THEN Infinity ELSE NegInfinity, end |-> i1 + 8]
  ELSE ScanInteger(s, sgn, i1, DigitRun(s, i1))

\* The literal from position start, just after the leading white space.
ScanSigned(s, start) ==
  ScanUnsigned(s, IF CharAt(s, start) = "-" THEN -1 ELSE 1,
               IF CharAt(s, start) \in {"+", "-"} THEN start + 1 ELSE start)

\* The decimal literal at the start of s (after leading white space), as
\* parseFloat reads it: its value (NaN when there is none) and the position
\* just after it.
ScanFloat(s) == ScanSigned(s, LeadingSpaces(s) + 1)

\* parseFloat(s): the number spelled by the longest prefix of s (after
\* leading white space) that is a decimal literal, NaN when there is none.
parseFloat(s) == ScanFloat(s).value

\* s without the white space at its end.
RECURSIVE TrimEnd(_)
TrimEnd(s) ==
  IF s # "" /\ CharAt(s, Len(s)) = " " THEN TrimEnd(SubSeq(s, 1, Len(s) - 1))
  ELSE s

\* The value of a scan that took all of `body`, NaN otherwise.
WholeLiteral(body, scan) ==
  IF scan.end = Len(body) + 1 THEN scan.value ELSE NaN

NumberOfTrimmed(body) ==
  IF body = "" THEN Whole(0) ELSE WholeLiteral(body, ScanFloat(body))

\* Number(s) for a string: 0 for an empty or blank string, the number when
\* the whole string is one decimal literal, NaN otherwise. (The hexadecimal,
\* octal and binary literals Number also reads are left out.)
StringToNumber(s) == NumberOfTrimmed(TrimEnd(s))

\* ToNumber(v), the conversion the arithmetic and relational operators apply
\* to an operand. An array converts through its text: [] is 0, a longer array
\* NaN; an object is NaN.
ToNumber(v) ==
  CASE IsNumber(v) -> v
    [] v.t = "undefined" -> NaN
    [] v.t = "null" -> Whole(0)
    [] v.t = "boolean" -> IF v.b THEN Whole(1) ELSE Whole(0)
    [] v.t = "string" -> StringToNumber(v.s)
    [] v.t = "array" /\ v.a = <<>> -> Whole(0)
    [] OTHER -> NaN

\* String(value) for a value that is no number: the string itself, 'true' or
\* 'false', '[object Object]'.
StringOf(value) ==
  CASE value.t = "string" -> value.s
    [] value.t = "boolean" -> IF value.b THEN "true" ELSE "false"
    [] OTHER -> "[object Object]"

\* parseFloat(String(value)). String of a number is the shortest text that
\* reads back as the same number, so a number comes back as it is.
parseFloatOfString(value) ==
  IF IsNumber(value) THEN value ELSE parseFloat(StringOf(value))

\* The end of parsePrice: 0 for NaN, Math.max(0, parsed) otherwise.
ClampParsed(parsed) == IF parsed = NaN THEN Whole(0) ELSE MaxZero(parsed)

\* parsePrice without the Math.max(0, parsed).
parsePriceUnclamped(value) ==
  IF value = Undefined \/ value = Null \/ parseFloatOfString(value) = NaN
  THEN Whole(0)
  ELSE parseFloatOfString(value)

parsePrice(value) ==
  IF value = Undefined \/ value = Null THEN Whole(0)
  ELSE ClampParsed(parseFloatOfString(value))

(***************************************************************************)
(* The normalization of one catalog entry (the callback of rawModels.map)  *)
(***************************************************************************)
PerMillion == 1000000

\* The record returned by the callback, once the provider is inferred.
UnifiedModel(model, provider) ==
  Obj([id |-> Get(model, "id"),
       name |-> Get(model, "name"),
       provider |-> provider,
       inputPricePerMillion |->
         Times(parsePrice(OptGet(Get(model, "pricing"), "prompt")),
               Whole(PerMillion)),
       outputPricePerMillion |->
         Times(parsePrice(OptGet(Get(model, "pricing"), "completion")),
               Whole(PerMillion)),
       contextWindow |-> IF Truthy(Get(model, "context_length"))
                         THEN Get(model, "context_length") ELSE Whole(0)])

UnifiedModelOrThrow(model, provider) ==
  IF IsThrow(provider) THEN provider ELSE UnifiedModel(model, provider)

\* The record built from entry `model`, or the TypeError thrown on the way:
\* by model.pricing when the entry is null, by id.toLowerCase() when model.id
\* is not a string.
normalizeModel(model) ==
  IF IsNullish(model) THEN Throw("TypeError")
  ELSE UnifiedModelOrThrow(model,
                           guessProvider(Get(model, "id"), Get(model, "name")))

\* The array with `first` before the records of `rest`, or the first error.
Collect(first, rest) ==
  IF IsThrow(first) THEN first
  ELSE IF IsThrow(rest) THEN rest
  ELSE Arr(<<first>> \o rest.a)

\* rawModels.map(...): the array of records, or the first TypeError thrown.
RECURSIVE normalizeAll(_)
normalizeAll(rawModels) ==
  IF rawModels = <<>> THEN Arr(<<>>)
  ELSE Collect(normalizeModel(Head(rawModels)), normalizeAll(Tail(rawModels)))

(***************************************************************************)
(* JSON and localStorage                                                   *)
(***************************************************************************)
\* What JSON.stringify keeps of a value: a number that is not finite becomes
\* null, a field whose value is undefined is dropped, an undefined element of
\* an array becomes null.
RECURSIVE toJSON(_)
toJSON(v) ==
  CASE v.t \in {"infinity", "nan", "undefined"} -> Null
    [] v.t = "array" -> Arr([i \in 1..Len(v.a) |-> toJSON(v.a[i])])
    [] v.t = "object" ->
         Obj([k \in {key \in DOMAIN v.f : v.f[key] # Undefined}
                |-> toJSON(v.f[k])])
    [] OTHER -> v

\* A string held by localStorage or sent as a response body: the empty
\* string, a text that is not JSON, or the JSON text of a value.
EmptyText == [t |-> "text", form |-> "empty"]
GarbageText == [t |-> "text", form |-> "garbage"]
JSONText(v) == [t |-> "text", form |-> "json", v |-> v]
\* What getItem returns for a key that is not set.
NoItem == [t |-> "null"]

JSONstringify(value) == JSONText(toJSON(value))

\* JSON.parse(text): the value, or the SyntaxError thrown.
JSONparse(text) ==
  IF text.form = "json" THEN text.v ELSE Throw("SyntaxError")

\* `if (cached)`: getItem gave a string that is not empty.
HasText(cached) == cached.t = "text" /\ cached.form # "empty"

(***************************************************************************)
(* fetchModels (apiService.ts)                                             *)
(***************************************************************************)
CACHE_DURATION == 3600000

\* a - b on numbers.
Minus(a, b) == Plus(a, Times(Whole(-1), b))

\* The cache check at the start of fetchModels, at time `time`: whether the
\* entry is returned (hit, with the value returned), and whether the item is
\* removed (the parse, or reading .timestamp of null, threw).
CheckCache(cached, time) ==
  IF ~HasText(cached) THEN [hit |-> FALSE, remove |-> FALSE]
  ELSE LET parsedCache == JSONparse(cached) IN
    IF IsThrow(parsedCache) \/ IsNullish(parsedCache)
      THEN [hit |-> FALSE, remove |-> TRUE]
    ELSE IF Less(Minus(Whole(time), ToNumber(Get(parsedCache, "timestamp"))),
                 Whole(CACHE_DURATION))
      THEN [hit |-> TRUE, remove |-> FALSE,
            value |-> Get(parsedCache, "models")]
    ELSE [hit |-> FALSE, remove |-> FALSE]

\* What the remote end does with the request: the fetch is rejected, or a
\* response arrives with its ok flag and its body.
Rejected == [t |-> "rejected"]
Response(ok, body) == [t |-> "response", ok |-> ok, body |-> body]

\* The fetch up to the shape check: rawModels (an array), or the error
\* thrown by fetch, by the !response.ok check, by response.json(), by reading
\* .data of null, or by the Array.isArray check.
FetchRawModels(response) ==
  IF response.t = "rejected" THEN Throw("NetworkError")
  ELSE IF ~response.ok THEN Throw("Failed to fetch models")
  ELSE LET json == JSONparse(response.body) IN
    IF IsThrow(json) THEN json
    ELSE IF IsNullish(json) THEN Throw("TypeError")
    ELSE IF Get(json, "data").t # "array"
      THEN Throw("Invalid API response structure")
    ELSE Get(json, "data")

\* The end of the try block: save to the cache at time `time` (setItem throws
\* when the store does not accept the write) and return.
SaveAndReturn(normalizedModels, accepted, time) ==
  IF IsThrow(normalizedModels) THEN [result |-> normalizedModels]
  ELSE IF ~accepted THEN [result |-> Throw("QuotaExceededError")]
  ELSE [result |-> normalizedModels,
        written |-> JSONstringify(Obj([timestamp |-> Whole(time),
                                       models |-> normalizedModels]))]

NormalizeAndSave(rawModels, accepted, time) ==
  IF IsThrow(rawModels) THEN [result |-> rawModels]
  ELSE SaveAndReturn(normalizeAll(rawModels.a), accepted, time)

\* The try block: fetch, normalize, save, return. The array returned with
\* the text written, or the error thrown.
TryFetch(response, accepted, time) ==
  NormalizeAndSave(FetchRawModels(response), accepted, time)

\* A catch block that rethrows whatever the cache holds.
CatchErrorRethrows(cached, error) == error

\* The catch block: the models of the cached text read at the start when it
\* parses to a value with properties, the error otherwise.
CatchError(cached, error) ==
  IF HasText(cached)
  THEN LET parsed == JSONparse(cached) IN
       IF IsThrow(parsed) \/ IsNullish(parsed) THEN error
       ELSE Get(parsed, "models")
  ELSE error

TryOrCatch(cached, try) ==
  IF IsThrow(try.result) THEN [result |-> CatchError(cached, try.result)]
  ELSE try

\* fetchModels after the cache check missed: what the promise settles with
\* (a value, or the error it rejects with) and the text written, if any.
FetchAfterMiss(cached, response, accepted, time) ==
  TryOrCatch(cached, TryFetch(response, accepted, time))

(***************************************************************************)
(* calculateModelCost (apiService.ts)                                      *)
(***************************************************************************)
\* tokens divided by 1,000,000,000 instead.
OverBillion(tokens) == OverPow10(ToNumber(tokens), 9)

\* tokens / 1_000_000
OverMillion(tokens) == OverPow10(ToNumber(tokens), Digits(PerMillion) - 1)

CostCalculation(model, inputCost, outputCost) ==
  Obj([model |-> model,
       inputCost |-> inputCost,
       outputCost |-> outputCost,
       totalCost |-> Plus(inputCost, outputCost)])

\* calculateModelCost with the input cost taken at the output price.
calculateModelCostOutputPrice(model, inputTokens, outputTokens) ==
  CostCalculation(model,
                  Times(OverMillion(inputTokens),
                        ToNumber(Get(model, "outputPricePerMillion"))),
                  Times(OverMillion(outputTokens),
                        ToNumber(Get(model, "outputPricePerMillion"))))

calculateModelCost(model, inputTokens, outputTokens) ==
  CostCalculation(model,
                  Times(OverMillion(inputTokens),
                        ToNumber(Get(model, "inputPricePerMillion"))),
                  Times(OverMillion(outputTokens),
                        ToNumber(Get(model, "outputPricePerMillion"))))

(***************************************************************************)
(* The catalogs the remote end serves and the texts found in the store     *)
(***************************************************************************)
\* The clock (Date.now(), in ms) starts here: late enough for an entry to
\* have been stored two hours before.
StartTime == 7200000
\* The clock runs for this many cache durations.
MaxHours == 2

Entry(id, name, prompt, completion, context_length) ==
  Obj([id |-> id, name |-> name,
       pricing |-> Obj([prompt |-> prompt, completion |-> completion]),
       context_length |-> context_length])

EntryClaude ==
  Entry(Str("anthropic/claude-3"), Str("Claude 3"),
        Str("0.000003"), Str("0.000015"), Whole(200000))
\* The same entry with its id and its prices only.
EntryExample ==
  Obj([id |-> Str("anthropic/claude-3"),
       pricing |-> Obj([prompt |-> Str("0.000003"),
                        completion |-> Str("0.000015")])])
EntryFree ==
  Entry(Str("meta-llama/llama-3:free"), Str("Llama 3"),
        Str("0"), Null, Whole(8192))
\* A price of -1 stands for "unknown" in the catalog.
EntryUnknownPrice ==
  Entry(Str("openrouter/auto"), Str("Auto"), Str("-1"), Whole(-1), Null)
\* No pricing object, no name, no context length.
EntryBare == Obj([id |-> Str("gpt"), description |-> Str("bare")])
\* A price beyond the range of doubles.
EntryHuge ==
  Entry(Str("x-ai/grok"), Str("Grok"), Str("1e400"), Str("abc"), Whole(131072))
EntryNegativeContext ==
  Entry(Str("/router"), Str("Router"), Str(""), Bool(TRUE), Whole(-1))
\* Prices and a context length that are text with a number in it.
EntryOdd ==
  Entry(Str("Mistral-7B"), Str("Mistral"),
        Str("12abc"), Str("-Infinity"), Str("8k"))
\* No id.
EntryNoId ==
  Obj([name |-> Str("Anonymous"),
       pricing |-> Obj([prompt |-> Str("0.000001")])])

Catalogs ==
  { <<>>,
    <<EntryClaude, EntryFree>>,
    <<EntryUnknownPrice, EntryBare>>,
    <<EntryHuge>>,
    <<EntryNegativeContext, EntryOdd>>,
    <<EntryClaude, EntryNoId>>,
    <<Null>> }

CatalogResponse(catalog) ==
  Response(TRUE, JSONText(Obj([data |-> Arr(catalog)])))

\* The responses whose data is an array of entries.
GoodResponses == {CatalogResponse(c) : c \in Catalogs}

\* The failures of the fetch: no response, a status that is not OK, a body
\* that is not JSON, a body that is null, a body without data, data that is
\* not an array.
FailedResponses ==
  { Rejected,
    Response(FALSE, GarbageText),
    Response(TRUE, GarbageText),
    Response(TRUE, JSONText(Null)),
    Response(TRUE, JSONText(Obj(<<>>))),
    Response(TRUE, JSONText(Obj([data |-> Obj([models |-> Arr(<<>>)])]))) }

Responses == GoodResponses \cup FailedResponses

\* The record the service stores for EntryClaude.
StoredClaude ==
  Obj([id |-> Str("anthropic/claude-3"), name |-> Str("Claude 3"),
       provider |-> Str("Anthropic"),
       inputPricePerMillion |-> Whole(3), outputPricePerMillion |-> Whole(15),
       contextWindow |-> Whole(200000)])

CacheText(timestamp, models) ==
  JSONText(Obj([timestamp |-> timestamp, models |-> models]))

\* Entries an earlier run of the service left in the store: none, one that
\* is stale, one that is fresh.
EarlierStores ==
  { NoItem,
    CacheText(Whole(StartTime - 2 * CACHE_DURATION), Arr(<<StoredClaude>>)),
    CacheText(Whole(StartTime - 1), Arr(<<StoredClaude>>)) }

\* Texts under the key that are no (timestamp, models) entry: the empty
\* string, a text that is not JSON, and JSON without a numeric timestamp or
\* without an array of models.
MalformedStores ==
  { EmptyText,
    GarbageText,
    JSONText(Null),
    JSONText(Obj(<<>>)),
    JSONText(Whole(5)),
    CacheText(Str("yesterday"), Arr(<<StoredClaude>>)),
    CacheText(Null, Arr(<<StoredClaude>>)),
    JSONText(Obj([timestamp |-> Whole(StartTime - 1)])),
    CacheText(Whole(StartTime - 1), Str("none")),
    CacheText(Whole(StartTime - 2 * CACHE_DURATION), Obj(<<>>)) }

InitialStores == EarlierStores \cup MalformedStores

\* The instants the clock can show: around every multiple of the cache
\* duration after the start.
Instants ==
  { StartTime + k * CACHE_DURATION + j : k \in 0..MaxHours, j \in {-1, 0, 1} }

(***************************************************************************)
(* State                                                                   *)
(***************************************************************************)
VARIABLES
  store,      \* the text localStorage holds under CACHE_KEY, or NoItem
  now,        \* Date.now()
  call,       \* the call of fetchModels: idle, awaiting the response, done
  lastFetch,  \* the last fetch that was saved: when, and the models returned
  origin,     \* the text the store held at the start
  applied     \* the last application of a pure function, for the
              \* specifications of the pure functions

\* The state of App (App.tsx), and what it has in flight.
VARIABLES
  models,            \* useState<UnifiedModelData[]>([])
  loading,           \* useState(true)
  error,             \* useState<string | null>(null)
  lastUpdated,       \* useState<number>(Date.now())
  currency,          \* useState<'USD' | 'INR'>('USD')
  exchangeRate,      \* useState<number>(1)
  inputTokens,       \* useState<number>(20000)
  outputTokens,      \* useState<number>(100000)
  search,            \* useState('')
  selectedProvider,  \* useState<string>('All')
  sortField,         \* useState<SortField>('totalCost')
  sortOrder,         \* useState<SortOrder>('asc')
  selectedModelIds,  \* useState<Set<string>>(new Set()): the ids in the
                     \* order of insertion
  mounted,           \* whether the effects of the first render have run
  loads,             \* the calls of loadData that have not completed
  loadLog,           \* how many loads were started, which of them succeeded,
                     \* and which one the models on display come from
  lookups            \* the calls of fetchRate that await the response

viewVars ==
  <<inputTokens, outputTokens, search, selectedProvider, sortField, sortOrder,
    selectedModelIds>>
loadVars == <<models, loading, error, lastUpdated, loads, loadLog>>
rateVars == <<currency, exchangeRate, lookups>>
appVars == <<viewVars, loadVars, rateVars, mounted>>

vars == <<store, now, call, lastFetch, origin, applied, appVars>>

NoLoads == [started |-> 0, succeeded |-> {}, shown |-> 0]

\* The state of App at its first render.
AppInit ==
  /\ models = Arr(<<>>)
  /\ loading = TRUE
  /\ error = Null
  /\ lastUpdated = now
  /\ currency = "USD"
  /\ exchangeRate = Whole(1)
  /\ inputTokens = Whole(20000)
  /\ outputTokens = Whole(100000)
  /\ search = ""
  /\ selectedProvider = "All"
  /\ sortField = "totalCost"
  /\ sortOrder = "asc"
  /\ selectedModelIds = <<>>
  /\ mounted = FALSE
  /\ loads = <<>>
  /\ loadLog = NoLoads
  /\ lookups = <<>>

Idle == [pc |-> "idle"]
NoFetch == [t |-> "none"]
NotApplied == [op |-> "none"]

Init ==
  /\ store \in InitialStores
  /\ origin = store
  /\ now = StartTime
  /\ call = Idle
  /\ lastFetch = NoFetch
  /\ applied = NotApplied
  /\ AppInit

\* The call records, besides its result, what it read and met: the text
\* read from the store (cached), the time it started, the last saved fetch
\* known when it started (after), whether it sent the request (fetched) and,
\* if so, the response, whether the store accepted the write, and whether the
\* call saved a new entry.
StartWith(check) ==
  /\ call' = IF check.hit
             THEN [pc |-> "done", cached |-> store, startedAt |-> now,
                   after |-> lastFetch, fetched |-> FALSE, saved |-> FALSE,
                   result |-> check.value]
             ELSE [pc |-> "awaiting", cached |-> store, startedAt |-> now,
                   after |-> lastFetch]
  /\ store' = IF check.remove THEN NoItem ELSE store

\* fetchModels is called: the cache check. A hit settles the call; after a
\* miss the request is sent and the call awaits the response.
Start ==
  /\ call.pc = "idle"
  /\ StartWith(CheckCache(store, now))
  /\ UNCHANGED <<now, lastFetch, origin, applied, appVars>>

ResolveWith(response, accepted, out) ==
  /\ call' = [pc |-> "done", cached |-> call.cached,
              startedAt |-> call.startedAt, after |-> call.after,
              fetched |-> TRUE, saved |-> "written" \in DOMAIN out,
              response |-> response, accepted |-> accepted,
              result |-> out.result]
  /\ store' = IF "written" \in DOMAIN out THEN out.written ELSE store
  /\ lastFetch' = IF "written" \in DOMAIN out
                  THEN [t |-> "fetch", time |-> now, models |-> out.result]
                  ELSE lastFetch

\* The response arrives (or the fetch is rejected); the store accepts the
\* write or not. The call settles.
Resolve(response, accepted) ==
  /\ call.pc = "awaiting"
  /\ ResolveWith(response, accepted,
                 FetchAfterMiss(call.cached, response, accepted, now))
  /\ UNCHANGED <<now, origin, applied, appVars>>

\* The caller takes the result.
Return ==
  /\ call.pc = "done"
  /\ call' = Idle
  /\ UNCHANGED <<store, now, lastFetch, origin, applied, appVars>>

\* Time passes (the caller takes a settled result at once).
Tick ==
  /\ call.pc # "done"
  /\ \E later \in Instants : later > now /\ now' = later
  /\ UNCHANGED <<store, call, lastFetch, origin, applied, appVars>>

Next ==
  \/ Start
  \/ \E response \in Responses, accepted \in BOOLEAN :
       Resolve(response, accepted)
  \/ Return
  \/ Tick

(***************************************************************************)
(* The pure functions, applied to sampled inputs                           *)
(***************************************************************************)
\* A field of an object literal: absent when the value is undefined.
Field(key, value) ==
  IF value = Undefined THEN <<>> ELSE [k \in {key} |-> value]

RawEntry(id, pricing, context_length) ==
  Obj(Field("id", id) @@ Field("name", Str("Model")) @@
      Field("pricing", pricing) @@ Field("context_length", context_length))

Pricing(prompt, completion) ==
  Obj(Field("prompt", prompt) @@ Field("completion", completion))

\* Ids: a namespace (a vendor of the table in some case, or another word, or
\* nothing), with or without a slash, and a rest.
IdStems ==
  { "", "openai", "OpenAI", "google", "anthropic", "Anthropic", "mistral",
    "mistralai", "meta-llama", "meta", "metal", "cohere", "deepseek", "qwen",
    "QWEN", "microsoft", "perplexity", "x-AI", "gpt" }
IdRests == { "", "model", "Large/v2" }
IdStrings ==
  { stem \o slash \o rest :
      stem \in IdStems, slash \in {"", "/"}, rest \in IdRests }
IdSamples == {Str(id) : id \in IdStrings} \cup {Undefined, Null, Whole(42)}

\* Raw price fields: absent, null, numbers, texts, a boolean, an object.
PriceSamples ==
  { Undefined, Null, Whole(0), Num(3, -6), Whole(-1), Num(-5, -7),
    Infinity, NegInfinity, Bool(TRUE), Obj(<<>>),
    Str("0.000003"), Str("0.000015"), Str(" 2.5e-6"), Str(".5"), Str("0"),
    Str("-1"), Str("-0.000002"), Str("-Infinity"), Str("1e400"),
    Str("Infinity"), Str("12abc"), Str(""), Str("abc"), Str("free"),
    Str("$3"), Str("-") }

\* Raw context lengths.
ContextSamples ==
  { Undefined, Null, Whole(0), Whole(1), Whole(8192), Whole(200000),
    Whole(-1), Whole(-4096), Num(15, -1), Str("8k"), Str(""), Bool(FALSE),
    Infinity }

RawEntries ==
  {Null, EntryExample}
  \cup { RawEntry(id, pricing, Whole(8192)) :
           id \in IdSamples,
           pricing \in {Undefined, Pricing(Str("0.000003"), Str("0.000015"))} }
  \cup { RawEntry(Str("gpt"), Pricing(prompt, completion), Null) :
           prompt \in PriceSamples, completion \in PriceSamples }
  \cup { RawEntry(Str("gpt"), pricing, Whole(8192)) :
           pricing \in {Null, Str("free"), Obj(<<>>)} }
  \cup { RawEntry(Str("openai/gpt"), Undefined, context_length) :
           context_length \in ContextSamples }

\* The records the cost is calculated for: what fetchModels returns for the
\* catalogs, from the fetch and from the cache.
RECURSIVE Union(_)
Union(sets) ==
  IF sets = {} THEN {}
  ELSE LET one == CHOOSE x \in sets : TRUE IN one \cup Union(sets \ {one})

RecordsOf(list) ==
  IF IsThrow(list) THEN {} ELSE {list.a[i] : i \in 1..Len(list.a)}

FetchedSamples == Union({RecordsOf(normalizeAll(c)) : c \in Catalogs})

ModelSamples ==
  FetchedSamples \cup {toJSON(m) : m \in FetchedSamples}
  \cup {normalizeModel(EntryExample)}

TokenSamples == { 0, 1, 1000, 20000, 100000, 1000000, 1234567 }

InitFunctions ==
  /\ store = NoItem
  /\ origin = NoItem
  /\ now = StartTime
  /\ call = Idle
  /\ lastFetch = NoFetch
  /\ applied = NotApplied
  /\ AppInit

Normalize ==
  /\ applied = NotApplied
  /\ \E model \in RawEntries :
       applied' = [op |-> "normalize", model |-> model,
                   result |-> normalizeModel(model)]
  /\ UNCHANGED <<store, now, call, lastFetch, origin, appVars>>

Calculate ==
  /\ applied = NotApplied
  /\ \E model \in ModelSamples, input \in TokenSamples,
        output \in TokenSamples :
       applied' = [op |-> "calculateModelCost", model |-> model,
                   inputTokens |-> input, outputTokens |-> output,
                   result |-> calculateModelCost(model, Whole(input),
                                                 Whole(output))]
  /\ UNCHANGED <<store, now, call, lastFetch, origin, appVars>>

NextFunctions == Normalize \/ Calculate

FunctionsSpec == InitFunctions /\ [][NextFunctions]_vars

Spec == Init /\ [][Next]_vars
(***************************************************************************)
(* Properties of the cache around the fetch (Spec)                         *)
(***************************************************************************)
Done == call.pc = "done"

\* A stored text that is a (timestamp, models) entry: JSON of an object with
\* a finite number as timestamp and an array as models.
IsCacheEntry(text) ==
  /\ text.t = "text" /\ text.form = "json" /\ text.v.t = "object"
  /\ Get(text.v, "timestamp").t = "number"
  /\ Get(text.v, "models").t = "array"

\* The catalog of a response whose data is an array.
CatalogOf(response) == Get(response.body.v, "data").a

\* C1: whenever the fetch fails (no response, a status that is not OK, a
\* body whose data is not an array), the call returns the models of the
\* cache entry it read, without an error, if there is an entry of any age,
\* and it fails, with the error of the fetch, if and only if there is no
\* entry.
C1_StaleFallbackOnFailure ==
  (Done /\ call.fetched /\ call.response \in FailedResponses
     /\ (IsCacheEntry(call.cached) \/ call.cached = NoItem))
  => /\ IsThrow(call.result) <=> call.cached = NoItem
     /\ IsThrow(call.result) => call.result = FetchRawModels(call.response)
     /\ ~IsThrow(call.result) => call.result = Get(call.cached.v, "models")

\* A failed fetch answered from an entry that an earlier call of the service
\* saved and that has expired since.
C1_Witness ==
  /\ Done /\ call.fetched /\ call.response = Rejected
  /\ call.after.t = "fetch"
  /\ IsCacheEntry(call.cached)
  /\ call.result = Get(call.cached.v, "models")
  /\ Len(call.result.a) = 2

\* A value without the fields of its objects that are undefined: reading such
\* a field and reading an absent one give the same.
RECURSIVE WithoutUndefined(_)
WithoutUndefined(v) ==
  CASE v.t = "array" -> Arr([i \in 1..Len(v.a) |-> WithoutUndefined(v.a[i])])
    [] v.t = "object" ->
         Obj([k \in {key \in DOMAIN v.f : v.f[key] # Undefined}
                |-> WithoutUndefined(v.f[k])])
    [] OTHER -> v

\* C2: after a load that fetched and saved the catalog at time t, a later
\* call at time t' returns, when t' - t < CACHE_DURATION, a model sequence
\* identical to the one saved, without a network call; when
\* t' - t >= CACHE_DURATION it sends the request.
C2_FreshCacheRoundTrip ==
  (Done /\ call.after.t = "fetch")
  => IF call.startedAt - call.after.time < CACHE_DURATION
     THEN /\ ~call.fetched
          /\ WithoutUndefined(call.result) = WithoutUndefined(call.after.models)
     ELSE call.fetched

\* C3: whenever the response carries an array of entries, the call returns
\* the normalization of exactly that array, never an error and never the
\* older cached models, whatever the cache held and whether or not the store
\* accepted the write.
C3_GoodResponseIsReturned ==
  (Done /\ call.fetched /\ call.response \in GoodResponses)
  => /\ call.result.t = "array"
     /\ Len(call.result.a) = Len(CatalogOf(call.response))
     /\ \A i \in 1..Len(call.result.a) :
          call.result.a[i] = normalizeModel(CatalogOf(call.response)[i])

\* C4: with a stored text that is no (timestamp, models) entry, the call does
\* what it does without a cache: it sends the request and settles as it would
\* have with nothing stored, and it never returns a value that is no model
\* sequence.
C4_MalformedCacheIsAbsent ==
  (Done /\ call.cached \in MalformedStores)
  => /\ call.fetched
     /\ call.result = FetchAfterMiss(NoItem, call.response, call.accepted,
                                     now).result
     /\ ~IsThrow(call.result) => call.result.t = "array"

\* p >= 0 as the language evaluates it.
NonNegative(p) == ToNumber(p) # NaN /\ ~Less(ToNumber(p), Whole(0))

\* Whether the text, after white space and a sign, begins like a number.
SpellsNumber(s) ==
  LET start == LeadingSpaces(s) + 1
      i == IF CharAt(s, start) \in {"+", "-"} THEN start + 1 ELSE start
  IN \/ IsDigit(CharAt(s, i))
     \/ CharAt(s, i) = "." /\ IsDigit(CharAt(s, i + 1))
     \/ Len(s) >= i + 7 /\ SubSeq(s, i, i + 7) = "Infinity"

\* A raw price field that is absent, negative or not numeric.
UnusablePrice(v) ==
  \/ v \in {Undefined, Null, NaN}
  \/ v.t \in {"number", "infinity"} /\ Sign(v) < 0
  \/ v.t \in {"boolean", "object", "array"}
  \/ v.t = "string" /\ ~SpellsNumber(v.s)
  \/ v.t = "string" /\ CharAt(v.s, LeadingSpaces(v.s) + 1) = "-"

RawPrice(model, field) == OptGet(Get(model, "pricing"), field)

\* C5: starting from an empty cache, every record a call returns has
\* inputPricePerMillion >= 0 and outputPricePerMillion >= 0, and in the
\* records of a fetch a raw price that is negative, not numeric or absent
\* has become exactly 0.
C5_PricesSanitized ==
  (Done /\ origin = NoItem /\ call.result.t = "array")
  => \A i \in 1..Len(call.result.a) :
       /\ NonNegative(Get(call.result.a[i], "inputPricePerMillion"))
       /\ NonNegative(Get(call.result.a[i], "outputPricePerMillion"))
       /\ (call.saved /\ UnusablePrice(RawPrice(CatalogOf(call.response)[i],
                                                "prompt")))
            => Get(call.result.a[i], "inputPricePerMillion") = Whole(0)
       /\ (call.saved /\ UnusablePrice(RawPrice(CatalogOf(call.response)[i],
                                                "completion")))
            => Get(call.result.a[i], "outputPricePerMillion") = Whole(0)

\* The catalog whose first entry has the price -1 was fetched and its record
\* came back with the price 0.
C5_Witness ==
  /\ Done /\ origin = NoItem /\ call.saved
  /\ Len(call.result.a) = 2
  /\ RawPrice(CatalogOf(call.response)[1], "prompt") = Str("-1")
  /\ Get(call.result.a[1], "inputPricePerMillion") = Whole(0)
  /\ RawPrice(CatalogOf(call.response)[2], "prompt") = Undefined
  /\ Get(call.result.a[2], "outputPricePerMillion") = Whole(0)

(***************************************************************************)
(* Properties of the pure functions (FunctionsSpec)                        *)
(***************************************************************************)
Normalized == applied.op = "normalize"

\* A number that is an integer.
IsInteger(v) == v.t = "number" /\ v.e >= 0

\* C6: for a raw entry whose context length is an integer or absent, the
\* contextWindow of the record is a non-negative integer: the context length
\* given when that is positive, 0 when it is absent, zero or negative.
C6_ContextWindow ==
  (Normalized /\ applied.result.t = "object"
     /\ (Get(applied.model, "context_length") \in {Undefined, Null}
           \/ IsInteger(Get(applied.model, "context_length"))))
  => LET given == Get(applied.model, "context_length")
         contextWindow == Get(applied.result, "contextWindow")
     IN /\ IsInteger(contextWindow) /\ Sign(contextWindow) >= 0
        /\ (IsInteger(given) /\ Sign(given) > 0) => contextWindow = given
        /\ (~IsInteger(given) \/ Sign(given) <= 0) => contextWindow = Whole(0)

\* C7: for every id that is a string, the empty one and those that begin with
\* a slash included, the provider is a string that is not empty.
C7_ProviderNotEmpty ==
  (Normalized /\ Get(applied.model, "id").t = "string")
  => /\ applied.result.t = "object"
     /\ Get(applied.result, "provider").t = "string"
     /\ Get(applied.result, "provider").s # ""

\* The rows of the vendor table whose prefix the id begins with, the case of
\* the letters apart.
VendorRows(id) ==
  { i \in 1..Len(ProviderPrefixes) :
      /\ Len(id) >= Len(ProviderPrefixes[i][1])
      /\ toUpperCase(SubSeq(id, 1, Len(ProviderPrefixes[i][1])))
           = toUpperCase(ProviderPrefixes[i][1]) }

\* The text before the first slash of an id that has one.
Namespace(id) == SubSeq(id, 1, FirstIndexFrom(id, "/", 1) - 1)

\* A word with its first letter in upper case and the others in lower case.
Capitalized(word) ==
  IF word = "" THEN ""
  ELSE UpperChar(Head(word)) \o toLowerCase(Tail(word))

\* C8: the provider is the label of the vendor whose prefix the id begins
\* with (compared without regard to case); failing that, the text before the
\* first slash, capitalized, when the id has a slash; and "Other" when it has
\* none.
C8_ProviderInference ==
  (Normalized /\ Get(applied.model, "id").t = "string")
  => LET id == Get(applied.model, "id").s
         provider == Get(applied.result, "provider")
     IN /\ \A i \in VendorRows(id) : provider = Str(ProviderPrefixes[i][2])
        /\ (VendorRows(id) = {} /\ "/" \in CharsOf(id))
             => provider = Str(Capitalized(Namespace(id)))
        /\ (VendorRows(id) = {} /\ "/" \notin CharsOf(id))
             => provider = Str("Other")

\* An id in mixed case with a vendor prefix, one that falls back to its
\* namespace, and one without a slash have each been normalized.
C8_Witness ==
  /\ Normalized
  /\ \/ /\ Get(applied.model, "id") = Str("OpenAI/Large/v2")
        /\ Get(applied.result, "provider") = Str("OpenAI")
     \/ /\ Get(applied.model, "id") = Str("x-AI/model")
        /\ Get(applied.result, "provider") = Str("X-ai")
     \/ /\ Get(applied.model, "id") = Str("openai")
        /\ Get(applied.result, "provider") = Str("Other")

\* C9: normalizing a raw entry never fails, whatever is absent or mistyped
\* in it: every entry yields a record.
C9_NormalizeNeverFails ==
  Normalized => applied.result.t = "object"

Calculated == applied.op = "calculateModelCost"

\* C10: calculateModelCost returns the model it was given, with
\* inputCost * 1,000,000 = inputTokens * inputPricePerMillion, the same for
\* the output, and totalCost = inputCost + outputCost, nothing rounded.
C10_CostFormula ==
  Calculated
  => /\ applied.result.t = "object"
     /\ Get(applied.result, "model") = applied.model
     /\ Times(Get(applied.result, "inputCost"), Whole(PerMillion))
          = Times(Whole(applied.inputTokens),
                  ToNumber(Get(applied.model, "inputPricePerMillion")))
     /\ Times(Get(applied.result, "outputCost"), Whole(PerMillion))
          = Times(Whole(applied.outputTokens),
                  ToNumber(Get(applied.model, "outputPricePerMillion")))
     /\ Get(applied.result, "totalCost")
          = Plus(Get(applied.result, "inputCost"),
                 Get(applied.result, "outputCost"))

\* The cost of 20,000 input and 100,000 output tokens at 3 and 15 per
\* million has been calculated: 0.06 + 1.5 = 1.56.
C10_Witness ==
  /\ Calculated
  /\ applied.model = StoredClaude
  /\ applied.inputTokens = 20000 /\ applied.outputTokens = 100000
  /\ Get(applied.result, "inputCost") = Num(6, -2)
  /\ Get(applied.result, "outputCost") = Num(15, -1)
  /\ Get(applied.result, "totalCost") = Num(156, -2)

\* The costs of 20,000 input and 100,000 output tokens for the record of
\* EntryExample are these three numbers.
ExampleCosts(inputCost, outputCost, totalCost) ==
  (/\ Calculated
   /\ applied.model = normalizeModel(EntryExample)
   /\ applied.inputTokens = 20000 /\ applied.outputTokens = 100000)
  => /\ Get(applied.result, "inputCost") = inputCost
     /\ Get(applied.result, "outputCost") = outputCost
     /\ Get(applied.result, "totalCost") = totalCost

\* The entry with id "anthropic/claude-3" and prices "0.000003" and
\* "0.000015" normalizes to 3 and 15 per million and provider "Anthropic".
ExampleRecord ==
  (Normalized /\ applied.model = EntryExample)
  => /\ Get(applied.result, "inputPricePerMillion") = Whole(3)
     /\ Get(applied.result, "outputPricePerMillion") = Whole(15)
     /\ Get(applied.result, "provider") = Str("Anthropic")

\* C11 (as stated): the example entry normalizes to 3, 15 and "Anthropic",
\* and 20,000 input and 100,000 output tokens cost 0.00006 and 0.0015,
\* 0.00156 in total.
C11_ExampleAsStated ==
  ExampleRecord /\ ExampleCosts(Num(6, -5), Num(15, -4), Num(156, -5))

\* C11 (amended): the example entry normalizes to 3, 15 and "Anthropic", and
\* 20,000 input and 100,000 output tokens cost 0.06 and 1.5, 1.56 in total.
C11_Example ==
  ExampleRecord /\ ExampleCosts(Num(6, -2), Num(15, -1), Num(156, -2))

\* The cost of the example has been calculated for the record the example
\* entry normalizes to.
C11_Witness ==
  /\ Calculated
  /\ applied.model = normalizeModel(EntryExample)
  /\ Get(applied.model, "provider") = Str("Anthropic")
  /\ applied.inputTokens = 20000 /\ applied.outputTokens = 100000
  /\ Get(applied.result, "totalCost") = Num(156, -2)

(***************************************************************************)
(* The derived views of App (App.tsx) and of CostChart (CostChart.tsx)     *)
(***************************************************************************)
\* The characters of the ids and names, in the order of their code units.
CodeUnitOrder ==
  " ()-./0123456789:ABCDEFGHIJKLMNOPQRSTUVWXYZabcdefghijklmnopqrstuvwxyz"

CodeUnitOf == [c \in CharsOf(CodeUnitOrder) |-> IndexIn(c, CodeUnitOrder)]

\* a < b on strings: by the first code unit that differs, a proper prefix
\* first.
RECURSIVE StringLess(_, _)
StringLess(a, b) ==
  IF b = "" THEN FALSE
  ELSE IF a = "" THEN TRUE
  ELSE IF Head(a) = Head(b) THEN StringLess(Tail(a), Tail(b))
  ELSE CodeUnitOf[Head(a)] < CodeUnitOf[Head(b)]

\* a < b: on two strings by code units, otherwise on the numbers the
\* operands convert to.
JSLess(a, b) ==
  IF a.t = "string" /\ b.t = "string" THEN StringLess(a.s, b.s)
  ELSE Less(ToNumber(a), ToNumber(b))

\* s.includes(q)
includes(s, q) ==
  \E i \in 0..(Len(s) - Len(q)) : SubSeq(s, i + 1, i + Len(q)) = q

\* models.map(model => calculateModelCost(model, inputTokens, outputTokens))
allCosts ==
  [i \in 1..Len(models.a) |->
     calculateModelCost(models.a[i], inputTokens, outputTokens)]

\* ['All', ...] with the providers of the models (as a set: the order of
\* the options is not modelled).
providers ==
  {"All"} \cup {Get(models.a[i], "provider").s : i \in 1..Len(models.a)}

\* selectedModelIds.has(id)
Has(id) == \E k \in 1..Len(selectedModelIds) : selectedModelIds[k] = id

IdOf(d) == Get(Get(d, "model"), "id")
NameOf(d) == Get(Get(d, "model"), "name")

\* data.filter(d => d.model.provider === selectedProvider), unless 'All'.
FilterProvider(data) ==
  IF selectedProvider # "All"
  THEN SelectSeq(data, LAMBDA d :
         Get(Get(d, "model"), "provider") = Str(selectedProvider))
  ELSE data

\* The search in the name only.
MatchesSearchNameOnly(d, q) == includes(toLowerCase(NameOf(d).s), q)

\* d.model.name.toLowerCase().includes(q) ||
\* d.model.id.toLowerCase().includes(q)
MatchesSearch(d, q) ==
  \/ includes(toLowerCase(NameOf(d).s), q)
  \/ includes(toLowerCase(IdOf(d).s), q)

\* .toLowerCase() of a name or id that is no string throws a TypeError (the
\* id is read only when the name does not match).
SearchThrows(d, q) ==
  \/ NameOf(d).t # "string"
  \/ ~includes(toLowerCase(NameOf(d).s), q) /\ IdOf(d).t # "string"

\* The search filter, when there is a search text: the array of the rows
\* that match, or the TypeError thrown.
FilterSearch(data) ==
  IF search = "" THEN Arr(data)
  ELSE IF \E i \in 1..Len(data) : SearchThrows(data[i], toLowerCase(search))
    THEN Throw("TypeError")
  ELSE Arr(SelectSeq(data, LAMBDA d : MatchesSearch(d, toLowerCase(search))))

SortFields ==
  {"name", "provider", "inputPrice", "outputPrice", "totalCost",
   "contextWindow"}

\* The switch on the sort field: the value a row is sorted by.
SortValue(d, field) ==
  CASE field = "name" -> Get(Get(d, "model"), "name")
    [] field = "provider" -> Get(Get(d, "model"), "provider")
    [] field = "contextWindow" -> Get(Get(d, "model"), "contextWindow")
    [] field = "inputPrice" -> Get(Get(d, "model"), "inputPricePerMillion")
    [] field = "outputPrice" -> Get(Get(d, "model"), "outputPricePerMillion")
    [] OTHER -> Get(d, "totalCost")

\* The comparator without the priority of the selected rows.
compareUnpinned(a, b) ==
  IF JSLess(SortValue(a, sortField), SortValue(b, sortField))
    THEN (IF sortOrder = "asc" THEN -1 ELSE 1)
  ELSE IF JSLess(SortValue(b, sortField), SortValue(a, sortField))
    THEN (IF sortOrder = "asc" THEN 1 ELSE -1)
  ELSE 0

\* The comparator of the sort: selected rows first, then by the field.
compare(a, b) ==
  IF Has(IdOf(a)) /\ ~Has(IdOf(b)) THEN -1
  ELSE IF ~Has(IdOf(a)) /\ Has(IdOf(b)) THEN 1
  ELSE IF JSLess(SortValue(a, sortField), SortValue(b, sortField))
    THEN (IF sortOrder = "asc" THEN -1 ELSE 1)
  ELSE IF JSLess(SortValue(b, sortField), SortValue(a, sortField))
    THEN (IF sortOrder = "asc" THEN 1 ELSE -1)
  ELSE 0

\* x put into a sorted sequence behind every row that does not come after
\* it.
RECURSIVE Insert(_, _)
Insert(sorted, x) ==
  IF sorted = <<>> THEN <<x>>
  ELSE IF compare(sorted[Len(sorted)], x) > 0
    THEN Append(Insert(SubSeq(sorted, 1, Len(sorted) - 1), x),
                sorted[Len(sorted)])
  ELSE Append(sorted, x)

\* [...data].sort(compare): Array.prototype.sort is stable, and the stable
\* order by a consistent comparator is the one insertion yields.
RECURSIVE sort(_)
sort(data) ==
  IF data = <<>> THEN <<>>
  ELSE Insert(sort(SubSeq(data, 1, Len(data) - 1)), data[Len(data)])

SortOrThrow(data) == IF IsThrow(data) THEN data ELSE Arr(sort(data.a))

\* The rows of the table, before they are sorted.
tableRows == FilterSearch(FilterProvider(allCosts))

tableData == SortOrThrow(tableRows)

isSelectionMode == Len(selectedModelIds) > 0

\* chartData of App: the selected records of allCosts, or the table.
chartData ==
  IF Len(selectedModelIds) > 0
  THEN Arr(SelectSeq(allCosts, LAMBDA d : Has(IdOf(d))))
  ELSE tableData

\* .slice(0, 15)
ChartCap == 15

slice(data, n) == SubSeq(data, 1, IF Len(data) < n THEN Len(data) ELSE n)

\* CostChart with the default mode in selection mode too.
ChartItemsDefaultMode(data, selectionMode) ==
  slice(SelectSeq(data, LAMBDA item :
          JSLess(Whole(0), Get(item, "totalCost"))),
        ChartCap)

\* CostChart without the slice.
ChartItemsUncapped(data, selectionMode) ==
  IF selectionMode THEN data
  ELSE SelectSeq(data, LAMBDA item :
         JSLess(Whole(0), Get(item, "totalCost")))

\* The items CostChart draws: all of its data in selection mode, otherwise
\* the first 15 of those with a total cost above 0.
ChartItems(data, selectionMode) ==
  IF selectionMode THEN data
  ELSE slice(SelectSeq(data, LAMBDA item :
               JSLess(Whole(0), Get(item, "totalCost"))),
             ChartCap)

\* item.model.name.split('/').pop() || item.model.name
ShortName(name) ==
  IF split(name, "/")[Len(split(name, "/"))] # ""
  THEN split(name, "/")[Len(split(name, "/"))] ELSE name

\* The point drawn for an item.
ChartPoint(item, rate) ==
  [name |-> ShortName(NameOf(item).s),
   fullName |-> NameOf(item).s,
   input |-> Times(ToNumber(Get(item, "inputCost")), ToNumber(rate)),
   output |-> Times(ToNumber(Get(item, "outputCost")), ToNumber(rate)),
   total |-> Times(ToNumber(Get(item, "totalCost")), ToNumber(rate)),
   provider |-> Get(Get(item, "model"), "provider").s]

ChartItemsOrThrow(data) ==
  IF IsThrow(data) THEN data ELSE Arr(ChartItems(data.a, isSelectionMode))

\* The items CostChart draws for the chartData of App.
chartItems == ChartItemsOrThrow(chartData)

ChartPoints(items) ==
  IF IsThrow(items) THEN items
  ELSE Arr([i \in 1..Len(items.a) |-> ChartPoint(items.a[i], exchangeRate)])

\* chartData of CostChart: the points of its items.
CostChartData == ChartPoints(chartItems)

(***************************************************************************)
(* The view state of App and its handlers                                  *)
(***************************************************************************)
\* Two entries with the same prices and context length, one of them with
\* its prices as numbers.
EntryGPT4 ==
  Entry(Str("openai/gpt-4"), Str("GPT-4"),
        Str("0.00003"), Str("0.00006"), Whole(8192))
EntryO1 ==
  Entry(Str("openai/o1"), Str("o1"), Num(3, -5), Num(6, -5), Whole(8192))

\* The k-th of a series of entries with rising prices.
EntryExtra(k) ==
  Entry(Str("mistralai/m-" \o CharAt(LowerCaseLetters, k)),
        Str("Mistral " \o CharAt(UpperCaseLetters, k)),
        Num(k, -6), Num(k, -5), Whole(1000 * k))

\* The long catalog has this many entries of the series: with them, more
\* entries than the chart draws have a cost.
ExtraModels == 14

SmallCatalog == <<EntryGPT4, EntryClaude, EntryFree, EntryO1>>
LongCatalog == SmallCatalog \o [k \in 1..ExtraModels |-> EntryExtra(k)]

ViewCatalogs == {<<>>, SmallCatalog, LongCatalog}

\* The texts typed into the search field, and the rows whose box is ticked.
SearchSamples == {"", "GPT", "llama-3"}
ToggleSamples == {Str("openai/gpt-4"), Str("anthropic/claude-3")}

\* The ids of the models, in their order.
IdsOf(list) == [i \in 1..Len(list.a) |-> Get(list.a[i], "id")]

\* The selection at the start: empty, or every row ticked from the top to
\* the bottom of the table.
SelectionsAtStart(list) == {<<>>, IdsOf(list)}

\* App after its first load: the models of a catalog on display, nothing in
\* flight.
InitView ==
  /\ store = NoItem
  /\ origin = NoItem
  /\ now = StartTime
  /\ call = Idle
  /\ lastFetch = NoFetch
  /\ applied = NotApplied
  /\ models \in {normalizeAll(catalog) : catalog \in ViewCatalogs}
  /\ loading = FALSE
  /\ error = Null
  /\ lastUpdated = now
  /\ currency = "USD"
  /\ exchangeRate = Whole(1)
  /\ inputTokens = Whole(20000)
  /\ outputTokens = Whole(100000)
  /\ search = ""
  /\ selectedProvider = "All"
  /\ sortField = "totalCost"
  /\ sortOrder = "asc"
  /\ selectedModelIds \in SelectionsAtStart(models)
  /\ mounted = TRUE
  /\ loads = <<>>
  /\ loadLog = [started |-> 1, succeeded |-> {1}, shown |-> 1]
  /\ lookups = <<>>

cacheVars == <<store, now, call, lastFetch, origin, applied>>

\* next.delete(id)
Delete(ids, id) == SelectSeq(ids, LAMBDA x : x # id)

\* Whether a row of the table is the one of this id.
HasRow(rows, id) ==
  ~IsThrow(rows) /\ \E i \in 1..Len(rows.a) : IdOf(rows.a[i]) = id

\* The box of a row of the table is clicked.
handleToggleSelection(id) ==
  /\ HasRow(tableRows, id)
  /\ selectedModelIds' = IF Has(id) THEN Delete(selectedModelIds, id)
                         ELSE Append(selectedModelIds, id)
  /\ UNCHANGED <<inputTokens, outputTokens, search, selectedProvider,
                 sortField, sortOrder>>
  /\ UNCHANGED <<cacheVars, loadVars, rateVars, mounted>>

\* The button shown in selection mode.
clearSelection ==
  /\ isSelectionMode
  /\ selectedModelIds' = <<>>
  /\ UNCHANGED <<inputTokens, outputTokens, search, selectedProvider,
                 sortField, sortOrder>>
  /\ UNCHANGED <<cacheVars, loadVars, rateVars, mounted>>

\* A header of the table is clicked.
handleSort(field) ==
  /\ IF sortField = field
     THEN /\ sortOrder' = IF sortOrder = "asc" THEN "desc" ELSE "asc"
          /\ UNCHANGED sortField
     ELSE /\ sortField' = field
          /\ sortOrder' = "asc"
  /\ UNCHANGED <<inputTokens, outputTokens, search, selectedProvider,
                 selectedModelIds>>
  /\ UNCHANGED <<cacheVars, loadVars, rateVars, mounted>>

\* The search field is edited.
setSearch(text) ==
  /\ search' = text
  /\ UNCHANGED <<inputTokens, outputTokens, selectedProvider, sortField,
                 sortOrder, selectedModelIds>>
  /\ UNCHANGED <<cacheVars, loadVars, rateVars, mounted>>

\* An option of the provider list is chosen.
setSelectedProvider(provider) ==
  /\ provider \in providers
  /\ selectedProvider' = provider
  /\ UNCHANGED <<inputTokens, outputTokens, search, sortField, sortOrder,
                 selectedModelIds>>
  /\ UNCHANGED <<cacheVars, loadVars, rateVars, mounted>>

ProviderSamples == {"All", "OpenAI", "Meta"}

NextView ==
  \/ \E id \in ToggleSamples : handleToggleSelection(id)
  \/ clearSelection
  \/ \E field \in SortFields : handleSort(field)
  \/ \E text \in SearchSamples : setSearch(text)
  \/ \E provider \in ProviderSamples : setSelectedProvider(provider)

ViewSpec == InitView /\ [][NextView]_vars

(***************************************************************************)
(* Properties of the views (ViewSpec)                                      *)
(***************************************************************************)
\* How often a record occurs in a sequence.
Count(data, d) == Cardinality({i \in 1..Len(data) : data[i] = d})

\* The position of a record in a sequence that has it.
PositionIn(data, d) == CHOOSE i \in 1..Len(data) : data[i] = d

StringFields == {"name", "provider"}

\* The value of field `field` of a is below the one of b: by code units for
\* the string fields, as numbers for the others.
Below(a, b, field) ==
  IF field \in StringFields
  THEN StringLess(SortValue(a, field).s, SortValue(b, field).s)
  ELSE Less(SortValue(a, field), SortValue(b, field))

\* b belongs before a in the requested direction.
OutOfOrder(a, b) ==
  IF sortOrder = "asc" THEN Below(b, a, sortField) ELSE Below(a, b, sortField)

EqualOnField(a, b) ==
  ~Below(a, b, sortField) /\ ~Below(b, a, sortField)

\* `table` holds the rows of `rows`, the selected ones first, each group in
\* the requested order, ties in the order of `rows`.
PinnedAndSorted(rows, table) ==
  /\ ~IsThrow(table)
  /\ Len(table.a) = Len(rows.a)
  /\ \A i \in 1..Len(rows.a) : Count(table.a, rows.a[i]) = 1
  /\ \A i, j \in 1..Len(table.a) :
       i < j =>
         /\ Has(IdOf(table.a[j])) => Has(IdOf(table.a[i]))
         /\ Has(IdOf(table.a[i])) = Has(IdOf(table.a[j]))
              => /\ ~OutOfOrder(table.a[i], table.a[j])
                 /\ EqualOnField(table.a[i], table.a[j])
                      => PositionIn(rows.a, table.a[i])
                           < PositionIn(rows.a, table.a[j])

\* C12: in the table, for every sort field and direction, the selected rows
\* precede the others; within the selected and within the other rows the
\* order follows the field in the requested direction, and rows equal on the
\* field keep their catalog order.
C12_PinnedStableSort == PinnedAndSorted(tableRows, tableData)

\* Sorted by total cost descending with Claude 3 ticked: the cheapest paid
\* row leads, and GPT-4 stays before o1, which costs the same.
C12_Witness ==
  /\ Len(models.a) = 4
  /\ sortField = "totalCost" /\ sortOrder = "desc"
  /\ selectedModelIds = <<Str("anthropic/claude-3")>>
  /\ ~IsThrow(tableData)
  /\ IdsOf(Arr([i \in 1..Len(tableData.a) |->
                 Get(tableData.a[i], "model")]))
       = <<Str("anthropic/claude-3"), Str("openai/gpt-4"), Str("openai/o1"),
           Str("meta-llama/llama-3:free")>>

\* s contains q, case ignored.
ContainsIgnoringCase(s, q) ==
  \E i \in 0..(Len(s) - Len(q)) :
    toUpperCase(SubSeq(s, i + 1, i + Len(q))) = toUpperCase(q)

\* The record passes the provider choice and the search text.
PassesFilter(d) ==
  /\ selectedProvider = "All"
       \/ Get(Get(d, "model"), "provider") = Str(selectedProvider)
  /\ \/ search = ""
     \/ ContainsIgnoringCase(NameOf(d).s, search)
     \/ ContainsIgnoringCase(IdOf(d).s, search)

\* `view` holds exactly the records of `costs` that satisfy keep(_), each
\* once.
HoldsExactly(view, costs, keep(_)) ==
  /\ ~IsThrow(view)
  /\ \A i \in 1..Len(costs) :
       Count(view.a, costs[i]) = IF keep(costs[i]) THEN 1 ELSE 0
  /\ \A i \in 1..Len(view.a) : Count(costs, view.a[i]) = 1

\* C13: the table holds exactly the cost records of the chosen provider
\* (all of them for "All") whose name or id contains the search text, case
\* ignored (all of them for no text), whatever is selected.
C13_TableFilter == HoldsExactly(tableData, allCosts, PassesFilter)

\* A search text in another case than the id it matches, a provider chosen,
\* a row selected that the filter hides.
C13_Witness ==
  /\ Len(models.a) = 4
  /\ search = "GPT" /\ selectedProvider = "OpenAI"
  /\ selectedModelIds = <<Str("anthropic/claude-3")>>
  /\ ~IsThrow(tableData)
  /\ Len(tableData.a) = 1
  /\ IdOf(tableData.a[1]) = Str("openai/gpt-4")

IsSelected(d) == Has(IdOf(d))

\* C14: in selection mode the chart draws exactly the cost records whose id
\* is selected, from all records: filtered out of the table or not, free or
\* not, more than 15 or not.
C14_SelectionChart ==
  isSelectionMode => HoldsExactly(chartItems, allCosts, IsSelected)

\* More than 15 records are selected, a free one among them, and the table
\* shows none of them.
C14_Witness ==
  /\ Len(selectedModelIds) > ChartCap
  /\ Has(Str("meta-llama/llama-3:free"))
  /\ ~IsThrow(tableData) /\ Len(tableData.a) = 0
  /\ ~IsThrow(chartItems) /\ Len(chartItems.a) = Len(selectedModelIds)

\* The items are in the order in which their ids were selected.
InSelectionOrder(items) ==
  \A i, j \in 1..Len(items) :
    i < j => PositionIn(selectedModelIds, IdOf(items[i]))
               < PositionIn(selectedModelIds, IdOf(items[j]))

\* The items are in the order of the sort key and direction.
InTableOrder(items) ==
  \A i, j \in 1..Len(items) : i < j => ~OutOfOrder(items[i], items[j])

InEitherOrder(chart) ==
  ~IsThrow(chart) /\ (InSelectionOrder(chart.a) \/ InTableOrder(chart.a))

\* C15: in selection mode the records of the chart are in the order in which
\* their ids were selected, or in the order of the table (the sort key and
\* direction).
C15_SelectionChartOrder == isSelectionMode => InEitherOrder(chartItems)

\* The items are sorted by total cost, the highest first.
ByDescendingTotal(items) ==
  \A i, j \in 1..Len(items) :
    i < j => ~Less(Get(items[i], "totalCost"), Get(items[j], "totalCost"))

\* No row of the table with a cost that is left out costs more than an item.
HoldsHighest(items, table) ==
  \A i \in 1..Len(table), j \in 1..Len(items) :
    \/ Count(items, table[i]) = 1
    \/ ~Less(Whole(0), Get(table[i], "totalCost"))
    \/ ~Less(Get(items[j], "totalCost"), Get(table[i], "totalCost"))

TopPaid(chart, table) ==
  /\ ~IsThrow(chart) /\ ~IsThrow(table)
  /\ ByDescendingTotal(chart.a)
  /\ HoldsHighest(chart.a, table.a)

\* C16: with nothing selected, the chart is sorted by descending total cost
\* whatever the sort key and direction of the table (the default, total cost
\* ascending, included): it holds the costliest of the table's rows with a
\* cost.
C16_DefaultChartDescending == ~isSelectionMode => TopPaid(chartItems, tableData)

\* At most 15 items, each with a cost, each a row of the table.
CappedPaidRows(chart, table) ==
  /\ ~IsThrow(chart) /\ ~IsThrow(table)
  /\ Len(chart.a) <= ChartCap
  /\ \A i \in 1..Len(chart.a) :
       /\ Less(Whole(0), Get(chart.a[i], "totalCost"))
       /\ Count(table.a, chart.a[i]) = 1

\* C17: with nothing selected, the chart has at most 15 records, each with
\* totalCost > 0 and each a row of the table.
C17_DefaultChartCap == ~isSelectionMode => CappedPaidRows(chartItems, tableData)

\* Nothing selected, more than 15 rows with a cost in the table, one free
\* row: the chart draws 15.
C17_Witness ==
  /\ ~isSelectionMode
  /\ ~IsThrow(tableData) /\ Len(tableData.a) > ChartCap + 1
  /\ ~IsThrow(chartItems) /\ Len(chartItems.a) = ChartCap

(***************************************************************************)
(* The exchange rate (App.tsx, the effect of currency)                     *)
(***************************************************************************)
\* setExchangeRate(84)
FallbackRate == 84

\* The try block of fetchRate once the body is parsed: the rate that is set
\* (data.rates.INR when data, data.rates and data.rates.INR are truthy), or
\* none.
RateOfData(data) ==
  IF IsThrow(data) THEN [set |-> TRUE, rate |-> Whole(FallbackRate)]
  ELSE IF /\ Truthy(data) /\ Truthy(Get(data, "rates"))
          /\ Truthy(Get(Get(data, "rates"), "INR"))
    THEN [set |-> TRUE, rate |-> Get(Get(data, "rates"), "INR")]
  ELSE [set |-> FALSE]

\* What fetchRate does with the outcome of its fetch: a rejected fetch and a
\* body that is not JSON end in the catch block.
RateOfResponse(response) ==
  IF response = Rejected THEN [set |-> TRUE, rate |-> Whole(FallbackRate)]
  ELSE RateOfData(JSONparse(response.body))

RatesBody(rates) == JSONText(Obj([base |-> Str("USD"), rates |-> rates]))

\* The outcomes of the lookup: rates with INR, the fetch rejected, a body
\* that is not JSON, an error status with a JSON body, null, no rates, rates
\* without INR, INR null, INR 0.
UsableRateResponses ==
  { Response(TRUE, RatesBody(Obj([INR |-> Num(835, -1), EUR |-> Num(92, -2)]))),
    Response(TRUE, RatesBody(Obj([INR |-> Whole(90)]))) }

FailedRateResponses ==
  { Rejected,
    Response(FALSE, GarbageText),
    Response(TRUE, EmptyText) }

UnusableRateResponses ==
  { Response(FALSE, JSONText(Obj([error |-> Str("quota")]))),
    Response(TRUE, JSONText(Null)),
    Response(TRUE, JSONText(Obj([base |-> Str("USD")]))),
    Response(TRUE, RatesBody(Obj([EUR |-> Num(92, -2)]))),
    Response(TRUE, RatesBody(Obj([INR |-> Null]))),
    Response(TRUE, RatesBody(Obj([INR |-> Whole(0)]))) }

RateResponses ==
  UsableRateResponses \cup FailedRateResponses \cup UnusableRateResponses

\* At most this many lookups await their response at a time.
MaxLookups == 2

\* App after its first load, nothing selected.
InitRate == InitView /\ selectedModelIds = <<>>

\* The effect of currency: fetchRate up to its await, or to its end.
fetchRate(to) ==
  IF to = "INR"
  THEN /\ lookups' = Append(lookups, [url |-> "latest/USD"])
       /\ UNCHANGED exchangeRate
  ELSE /\ exchangeRate' = Whole(1)
       /\ UNCHANGED lookups

\* A currency button is clicked; when the currency changes, its effect runs.
setCurrency(to) ==
  /\ (to = "INR" /\ to # currency) => Len(lookups) < MaxLookups
  /\ currency' = to
  /\ IF to # currency THEN fetchRate(to)
     ELSE UNCHANGED <<exchangeRate, lookups>>
  /\ applied' = [op |-> "setCurrency", to |-> to]
  /\ UNCHANGED <<store, now, call, lastFetch, origin>>
  /\ UNCHANGED <<viewVars, loadVars, mounted>>

SetRate(outcome) ==
  exchangeRate' = IF outcome.set THEN outcome.rate ELSE exchangeRate

\* The fetch of a lookup settles: the rest of fetchRate.
fetchRateResumes(i, response) ==
  /\ i \in 1..Len(lookups)
  /\ lookups' = SubSeq(lookups, 1, i - 1) \o SubSeq(lookups, i + 1, Len(lookups))
  /\ SetRate(RateOfResponse(response))
  /\ applied' = [op |-> "fetchRate", response |-> response]
  /\ UNCHANGED <<store, now, call, lastFetch, origin>>
  /\ UNCHANGED <<viewVars, loadVars, mounted, currency>>

Currencies == {"USD", "INR"}

NextRate ==
  \/ \E to \in Currencies : setCurrency(to)
  \/ \E i \in 1..MaxLookups, response \in RateResponses :
       fetchRateResumes(i, response)

RateSpec == InitRate /\ [][NextRate]_vars

(***************************************************************************)
(* Properties of the exchange rate (RateSpec)                              *)
(***************************************************************************)
\* C18: with INR selected, a lookup that fails, or whose response has no
\* usable INR rate, sets the factor to the fallback, 84; no error is shown
\* and the factor does not stay what it was for the other currency.
C18_RateFallback ==
  (/\ applied.op = "fetchRate"
   /\ currency = "INR"
   /\ applied.response \in FailedRateResponses \cup UnusableRateResponses)
  => exchangeRate = Whole(FallbackRate) /\ error = Null

\* C19: when no lookup is pending, the factor is 1 whenever the currency is
\* USD, whatever the order of the clicks and the responses.
C19_RateMatchesCurrency ==
  (lookups = <<>> /\ currency = "USD") => exchangeRate = Whole(1)

(***************************************************************************)
(* The load of the catalog (App.tsx, loadData)                             *)
(***************************************************************************)
ErrorMessage ==
  Str("Failed to fetch pricing data. Please check your connection.")

\* At most this many loads are started.
MaxLoads == 3

\* App at its first render, with whatever an earlier run left in the store.
InitLoad == Init

\* The load with this number, started when `started` loads were, has
\* completed with the value fetchModels returned or the error it threw: the
\* rest of loadData. The error shown was `shown` before.
Completes(number, started, result, shown) ==
  /\ IF IsThrow(result)
     THEN /\ error' = ErrorMessage
          /\ UNCHANGED <<models, lastUpdated>>
          /\ loadLog' = [loadLog EXCEPT !.started = started]
     ELSE /\ models' = result
          /\ lastUpdated' = now
          /\ error' = shown
          /\ loadLog' = [started |-> started,
                         succeeded |-> loadLog.succeeded \cup {number},
                         shown |-> number]
  /\ loading' = FALSE

\* loadData up to the await, and beyond it when the cache check of
\* fetchModels hits: setLoading(true), setError(null), the cache check.
\* `applied` records the last load that completed: what it read from the
\* store, whether it sent the request and, if so, what came of it.
loadDataWith(number, check) ==
  IF check.hit
  THEN /\ Completes(number, number, check.value, Null)
       /\ applied' = [op |-> "loadData", number |-> number, cached |-> store,
                      fetched |-> FALSE, result |-> check.value]
       /\ UNCHANGED <<store, loads>>
  ELSE /\ UNCHANGED applied
       /\ loading' = TRUE
       /\ error' = Null
       /\ loads' = Append(loads, [number |-> number, cached |-> store])
       /\ loadLog' = [loadLog EXCEPT !.started = number]
       /\ store' = IF check.remove THEN NoItem ELSE store
       /\ UNCHANGED <<models, lastUpdated>>

loadData == loadDataWith(loadLog.started + 1, CheckCache(store, now))

\* The effects of the first render: fetchRate for USD, and loadData.
Mount ==
  /\ ~mounted
  /\ mounted' = TRUE
  /\ exchangeRate' = Whole(1)
  /\ loadData
  /\ UNCHANGED <<now, call, lastFetch, origin>>
  /\ UNCHANGED <<viewVars, currency, lookups>>

\* A refresh button that is never disabled.
RefreshWhileLoading ==
  /\ mounted
  /\ loadLog.started < MaxLoads
  /\ loadData
  /\ UNCHANGED <<now, call, lastFetch, origin>>
  /\ UNCHANGED <<viewVars, rateVars, mounted>>

\* The refresh button (disabled while loading) is clicked.
Refresh ==
  /\ mounted
  /\ ~loading
  /\ loadLog.started < MaxLoads
  /\ loadData
  /\ UNCHANGED <<now, call, lastFetch, origin>>
  /\ UNCHANGED <<viewVars, rateVars, mounted>>

ResumeWith(i, response, accepted, out) ==
  /\ applied' = [op |-> "loadData", number |-> loads[i].number,
                 cached |-> loads[i].cached, fetched |-> TRUE,
                 response |-> response, accepted |-> accepted,
                 result |-> out.result]
  /\ store' = IF "written" \in DOMAIN out THEN out.written ELSE store
  /\ loads' = SubSeq(loads, 1, i - 1) \o SubSeq(loads, i + 1, Len(loads))
  /\ Completes(loads[i].number, loadLog.started, out.result, error)

\* The fetch of a load settles: the rest of fetchModels and of loadData.
loadDataResumes(i, response, accepted) ==
  /\ i \in 1..Len(loads)
  /\ ResumeWith(i, response, accepted,
                FetchAfterMiss(loads[i].cached, response, accepted, now))
  /\ UNCHANGED <<now, call, lastFetch, origin>>
  /\ UNCHANGED <<viewVars, rateVars, mounted>>

\* The outcomes of the fetch of a load.
LoadResponses ==
  { CatalogResponse(<<EntryClaude, EntryFree>>),
    CatalogResponse(<<EntryGPT4>>),
    CatalogResponse(<<EntryClaude, EntryNoId>>),
    Rejected,
    Response(FALSE, GarbageText) }

NextLoad ==
  \/ Mount
  \/ Refresh
  \/ \E i \in 1..MaxLoads, response \in LoadResponses, accepted \in BOOLEAN :
       loadDataResumes(i, response, accepted)
  \/ Tick

LoadSpec == InitLoad /\ [][NextLoad]_vars

(***************************************************************************)
(* Properties of the load (LoadSpec)                                       *)
(***************************************************************************)
\* The highest of a set of numbers, 0 for none.
Highest(numbers) ==
  IF numbers = {} THEN 0
  ELSE CHOOSE n \in numbers : \A other \in numbers : other <= n

\* C20: never two loads in flight: loading is true from the first render
\* and while a load is in flight, so that the refresh button, disabled while
\* loading, starts a load only after the one before has completed; the
\* models on display are those of the latest load started that succeeded.
C20_LoadsInSequence ==
  /\ Len(loads) <= 1
  /\ loads # <<>> => loading
  /\ ~mounted => loading
  /\ loadLog.shown = Highest(loadLog.succeeded)

\* Three loads, the first of which failed: the models of the third are on
\* display.
C20_Witness ==
  /\ loadLog.started = 3
  /\ loadLog.succeeded = {2, 3}
  /\ loadLog.shown = 3
  /\ loads = <<>> /\ ~loading

\* The last load sent the request, the fetch failed, and the store had held
\* no cache entry.
FetchFailedWithoutCache ==
  /\ applied.op = "loadData"
  /\ applied.fetched
  /\ applied.response \in FailedResponses
  /\ ~IsCacheEntry(applied.cached)

\* loading is true exactly while a load is in flight, and no error is shown
\* while one is.
LoadingWhileInFlight ==
  /\ mounted => (loading <=> loads # <<>>)
  /\ loads # <<>> => error = Null

\* C21: loading is true exactly while a load is in flight; the error is
\* cleared when a load starts; once a load has completed the error is shown
\* if and only if the fetch failed with no cache entry, and never after a
\* load served from the cache, fresh or stale.
C21_LoadingAndError ==
  /\ LoadingWhileInFlight
  /\ (mounted /\ loads = <<>>)
       => (error # Null <=> FetchFailedWithoutCache)

(***************************************************************************)
(* The token fields (InputCard.tsx)                                        *)
(***************************************************************************)
\* text.replace(/,/g, '')
RECURSIVE WithoutCommas(_)
WithoutCommas(text) ==
  IF text = "" THEN ""
  ELSE IF Head(text) = "," THEN WithoutCommas(Tail(text))
  ELSE Head(text) \o WithoutCommas(Tail(text))

\* The digits of s from position i, with the sign before them: the integer
\* they spell, NaN when there is no digit.
IntegerAt(s, sgn, i) ==
  IF DigitRun(s, i) = 0 THEN NaN
  ELSE Whole(sgn * DigitsValue(s, i, DigitRun(s, i)))

SignedIntegerAt(s, i) ==
  IF CharAt(s, i) = "-" THEN IntegerAt(s, -1, i + 1)
  ELSE IF CharAt(s, i) = "+" THEN IntegerAt(s, 1, i + 1)
  ELSE IntegerAt(s, 1, i)

\* parseInt(s, 10): white space, a sign, digits, and whatever follows them.
parseInt(s) == SignedIntegerAt(s, LeadingSpaces(s) + 1)

\* What handleChange passes to onChange for the text of the field, or that it
\* does not call it.
ChangeOf(text, val) ==
  IF val # NaN THEN [call |-> TRUE, val |-> val]
  ELSE IF text = "" THEN [call |-> TRUE, val |-> Whole(0)]
  ELSE [call |-> FALSE]

\* The two cards: their onChange is setInputTokens and setOutputTokens.
Cards == {"input", "output"}

SetTokens(card, change) ==
  /\ inputTokens' = IF card = "input" /\ change.call THEN change.val
                    ELSE inputTokens
  /\ outputTokens' = IF card = "output" /\ change.call THEN change.val
                     ELSE outputTokens

\* The field of a card is edited to `text`.
handleChange(card, text) ==
  /\ SetTokens(card, ChangeOf(text, parseInt(WithoutCommas(text))))
  /\ applied' = [op |-> "handleChange", card |-> card, text |-> text,
                 before |-> IF card = "input" THEN inputTokens
                            ELSE outputTokens]
  /\ UNCHANGED <<store, now, call, lastFetch, origin>>
  /\ UNCHANGED <<search, selectedProvider, sortField, sortOrder,
                 selectedModelIds>>
  /\ UNCHANGED <<loadVars, rateVars, mounted>>

\* A quick-set button of a card is clicked.
handleQuickSet(card, amount) ==
  /\ SetTokens(card, [call |-> TRUE, val |-> Whole(amount)])
  /\ applied' = [op |-> "handleQuickSet", card |-> card, amount |-> amount]
  /\ UNCHANGED <<store, now, call, lastFetch, origin>>
  /\ UNCHANGED <<search, selectedProvider, sortField, sortOrder,
                 selectedModelIds>>
  /\ UNCHANGED <<loadVars, rateVars, mounted>>

QuickSetAmounts == {1000, 10000, 100000, 1000000}

\* Texts of the field: the count shown with a digit typed or removed, a sign
\* typed before it, all of it deleted, and texts pasted.
TextSamples ==
  { "", "0", "5", "20,00", "20,0005", "1,500", " 42", "+7", "12abc", "1.5",
    "abc", "-", ",", "-5", "-20,000" }

\* App after its first load of the small catalog, nothing selected.
InitInput == InitRate /\ Len(models.a) = Len(SmallCatalog)

NextInput ==
  \/ \E card \in Cards, text \in TextSamples : handleChange(card, text)
  \/ \E card \in Cards, amount \in QuickSetAmounts :
       handleQuickSet(card, amount)

InputSpec == InitInput /\ [][NextInput]_vars

(***************************************************************************)
(* Properties of the token fields (InputSpec)                              *)
(***************************************************************************)
IsCount(v) == IsInteger(v) /\ v.m >= 0

\* The count of the card that was edited last.
CountOf(card) == IF card = "input" THEN inputTokens ELSE outputTokens

\* The text has no integer at its start (after commas are dropped).
Unparsable(text) == text # "" /\ parseInt(WithoutCommas(text)) = NaN

\* C22: after any edits of the token fields and clicks on the quick-set
\* buttons, both counts are non-negative integers: a text that does not
\* parse leaves the count as it was, the empty text sets it to 0, and no text
\* makes it negative.
C22_TokenCounts ==
  /\ IsCount(inputTokens)
  /\ IsCount(outputTokens)
  /\ applied.op = "handleChange"
       => /\ applied.text = "" => CountOf(applied.card) = Whole(0)
          /\ Unparsable(applied.text) => CountOf(applied.card) = applied.before
====
